---- MODULE Spec2Model ----
(***************************************************************************)
(* A model of the software rasterizer of rust_graphics                     *)
(* (src/src/triangles.rs) and of the redraw handling of its event loop     *)
(* (src/src/main.rs).                                                      *)
(*                                                                         *)
(* Arithmetic.  The program computes in f64.  The model computes in exact  *)
(* rational arithmetic: a number is a record [n |-> numerator,             *)
(* d |-> denominator] in lowest terms with d > 0.  Rounding of f64 is      *)
(* therefore not part of the model; every input of the model is a small    *)
(* dyadic or small-denominator value.  f64::MAX is the record F64_MAX,     *)
(* which compares above every depth the model computes.                    *)
(***************************************************************************)
EXTENDS Integers, Sequences, FiniteSets, TLC

(***************************************************************************)
(* Exact numbers                                                           *)
(***************************************************************************)
Abs(i) == IF i < 0 THEN -i ELSE i

RECURSIVE GCD(_, _)
GCD(a, b) == IF b = 0 THEN a ELSE GCD(b, a % b)

\* the number n/d (d # 0) in lowest terms
Rat(n, d) ==
    LET g == GCD(Abs(n), Abs(d))
        s == IF d < 0 THEN -1 ELSE 1
    IN  [n |-> s * (n \div g), d |-> s * (d \div g)]

Int2R(i) == [n |-> i, d |-> 1]
R0 == Int2R(0)
R1 == Int2R(1)
RHalf == [n |-> 1, d |-> 2]

RAdd(a, b) == Rat(a.n * b.d + b.n * a.d, a.d * b.d)
RNeg(a) == [n |-> -a.n, d |-> a.d]
RSub(a, b) == RAdd(a, RNeg(b))
RMul(a, b) == Rat(a.n * b.n, a.d * b.d)
\* f64 division; the model never divides by zero (see ValidCall)
RDiv(a, b) == Rat(a.n * b.d, a.d * b.n)
RLt(a, b) == a.n * b.d < b.n * a.d
RLe(a, b) == a.n * b.d <= b.n * a.d
\* f64::min, f64::max
RMin(a, b) == IF RLt(b, a) THEN b ELSE a
RMax(a, b) == IF RLt(a, b) THEN b ELSE a
\* f64::floor, f64::ceil (as integers)
RFloor(a) == IF a.n >= 0 THEN a.n \div a.d ELSE -((-a.n + a.d - 1) \div a.d)
RCeil(a) == -RFloor(RNeg(a))
\* `as u32` of an f64: truncation toward zero, saturating at 0 (the upper
\* saturation at 2^32 - 1 is beyond every value the model computes)
F64AsU32(a) == IF a.n < 0 THEN 0 ELSE a.n \div a.d

\* f64::MAX, the initial content of the z buffer
F64_MAX == [n |-> 1, d |-> 0]

(***************************************************************************)
(* Point2D, Triangle2D                                                     *)
(***************************************************************************)
Point2D_new(x, y) == [x |-> x, y |-> y]

Point2D_translated_by(p, offset) == Point2D_new(RAdd(p.x, offset.x), RAdd(p.y, offset.y))

Triangle2D_new(a, b, c) == [a |-> a, b |-> b, c |-> c]

Triangle2D_translated_by(t, offset) ==
    [a |-> Point2D_translated_by(t.a, offset),
     b |-> Point2D_translated_by(t.b, offset),
     c |-> Point2D_translated_by(t.c, offset)]

\* a mutant of edge_function: the second product taken with the wrong vertex
edge_function_mut(a, b, c) ==
    RSub(RMul(RSub(b.x, a.x), RSub(c.y, a.y)), RMul(RSub(b.y, a.y), RSub(c.x, b.x)))

edge_function(a, b, c) ==
    RSub(RMul(RSub(b.x, a.x), RSub(c.y, a.y)), RMul(RSub(b.y, a.y), RSub(c.x, a.x)))

signed_area(t) == RMul(Int2R(2), edge_function(t.a, t.b, t.c))

\* the three weights <<weight_a, weight_b, weight_c>>; abc # 0 is required
get_weights_at(t, p) ==
    LET abc == edge_function(t.a, t.b, t.c)
        abp == edge_function(t.a, t.b, p)
        bcp == edge_function(t.b, t.c, p)
        cap == edge_function(t.c, t.a, p)
    IN  <<RDiv(bcp, abc), RDiv(cap, abc), RDiv(abp, abc)>>

contains_point(t, p) ==
    LET w == get_weights_at(t, p)
    IN  RLe(R0, w[1]) /\ RLe(R0, w[2]) /\ RLe(R0, w[3])

\* the ranges [x |-> [start, end], y |-> [start, end]]
get_bounding_box(t) ==
    LET min_x == RMin(R1, RMin(RMin(t.a.x, t.b.x), t.c.x))
        max_x == RMax(R0, RMax(RMax(t.a.x, t.b.x), t.c.x))
        min_y == RMin(R1, RMin(RMin(t.a.y, t.b.y), t.c.y))
        max_y == RMax(R0, RMax(RMax(t.a.y, t.b.y), t.c.y))
    IN  [x |-> [start |-> min_x, end |-> max_x],
         y |-> [start |-> min_y, end |-> max_y]]

get_bounding_box_px(t, width, height) ==
    LET r == get_bounding_box(t)
        min_x == F64AsU32(Int2R(RFloor(RMul(r.x.start, Int2R(width)))))
        max_x == F64AsU32(Int2R(RCeil(RMul(r.x.end, Int2R(width)))))
        min_y == F64AsU32(Int2R(RFloor(RMul(r.y.start, Int2R(height)))))
        max_y == F64AsU32(Int2R(RCeil(RMul(r.y.end, Int2R(height)))))
    IN  [x |-> [start |-> min_x, end |-> max_x],
         y |-> [start |-> min_y, end |-> max_y]]

(***************************************************************************)
(* Point3D, Triangle3D                                                     *)
(***************************************************************************)
Point3D_new(x, y, z) == [x |-> x, y |-> y, z |-> z]

Point3D_translated_by(p, offset) ==
    Point3D_new(RAdd(p.x, offset.x), RAdd(p.y, offset.y), RAdd(p.z, offset.z))

\* z # 0 is required
Point3D_project_to_2d(p) == Point2D_new(RDiv(p.x, p.z), RDiv(p.y, p.z))

get_translating_point(p) == Point3D_new(RNeg(p.x), RNeg(p.y), RNeg(p.z))

\* rotated_xz(rotation) for rotation = q quarter turns (q * pi/2), where
\* magnitude * cos(atan2(z, x) + rotation) and magnitude * sin(...) are
\* x cos - z sin and x sin + z cos with cos, sin in {-1, 0, 1}
Point3D_rotated_xz(p, q) ==
    CASE q % 4 = 0 -> p
      [] q % 4 = 1 -> Point3D_new(RNeg(p.z), p.y, p.x)
      [] q % 4 = 2 -> Point3D_new(RNeg(p.x), p.y, RNeg(p.z))
      [] q % 4 = 3 -> Point3D_new(p.z, p.y, RNeg(p.x))

Triangle3D_new(a, b, c) == [a |-> a, b |-> b, c |-> c]

Triangle3D_translated_by(t, offset) ==
    [a |-> Point3D_translated_by(t.a, offset),
     b |-> Point3D_translated_by(t.b, offset),
     c |-> Point3D_translated_by(t.c, offset)]

Triangle3D_project_to_2d(t) ==
    Triangle2D_new(Point3D_project_to_2d(t.a), Point3D_project_to_2d(t.b),
                   Point3D_project_to_2d(t.c))

Triangle3D_rotated_xz(t, q) ==
    [a |-> Point3D_rotated_xz(t.a, q),
     b |-> Point3D_rotated_xz(t.b, q),
     c |-> Point3D_rotated_xz(t.c, q)]

(***************************************************************************)
(* PaintBuffer, Camera, Light, Scene                                       *)
(***************************************************************************)
\* z_buffer and pixel_buffer are sequences; Rust's index i is position i + 1.
\* width * height is a u32 product; every size of the model is far below 2^32.
\* a mutant of PaintBuffer::new: the z buffer gets one entry per column
PaintBuffer_new_mut(width, height) ==
    [width |-> width, height |-> height,
     z_buffer |-> [i \in 1..width |-> F64_MAX],
     pixel_buffer |-> [i \in 1..(width * height) |-> 0]]

PaintBuffer_new(width, height) ==
    [width |-> width, height |-> height,
     z_buffer |-> [i \in 1..(width * height) |-> F64_MAX],
     pixel_buffer |-> [i \in 1..(width * height) |-> 0]]

Camera_new(position, view_dir) == [position |-> position, view_dir |-> view_dir]

Light_new(position, color) == [position |-> position, color |-> color]

Scene_new(camera, light) == [camera |-> camera, light |-> light]

(***************************************************************************)
(* The color closures handed to Triangle3D::paint_to_buffer                *)
(***************************************************************************)
RECURSIVE BitOr(_, _)
BitOr(a, b) ==
    IF a = 0 THEN b
    ELSE IF b = 0 THEN a
    ELSE 2 * BitOr(a \div 2, b \div 2) + (IF a % 2 = 1 \/ b % 2 = 1 THEN 1 ELSE 0)

\* r << k on values far below 2^32
Shl(r, k) == r * (2 ^ k)

\* f64::clamp
RClamp(v, lo, hi) == IF RLt(v, lo) THEN lo ELSE IF RLt(hi, v) THEN hi ELSE v

ambient == [n |-> 3, d |-> 20]

\* brightness before the clamp: ambient + diffuse + specular; lit holds
\* diff_brightness_{a,b,c} and spec_brightness_{a,b,c}
raw_brightness(lit, w) ==
    RAdd(RAdd(ambient,
              RAdd(RAdd(RMul(lit.diff[1], w[1]), RMul(lit.diff[2], w[2])),
                   RMul(lit.diff[3], w[3]))),
         RAdd(RAdd(RMul(lit.spec[1], w[1]), RMul(lit.spec[2], w[2])),
              RMul(lit.spec[3], w[3])))

\* a mutant of brightness: the clamp to [0, 1] is left out
brightness_mut(lit, w) == raw_brightness(lit, w)

\* brightness of the closure of ColorTriangle::paint_to_buffer
brightness(lit, w) == RClamp(raw_brightness(lit, w), R0, R1)

\* r, g or b of the closure: (255.0 * brightness * light.color.k) as u32
channel(lit, light_color, w, k) ==
    F64AsU32(RMul(Int2R(255), RMul(brightness(lit, w), light_color[k])))

\* (r << 16) | (g << 8) | b
pack(r, g, b) == BitOr(BitOr(Shl(r, 16), Shl(g, 8)), b)

\* the closure of ColorTriangle::paint_to_buffer
lit_color_f(lit, light_color, w) ==
    pack(channel(lit, light_color, w, 1), channel(lit, light_color, w, 2),
         channel(lit, light_color, w, 3))

\* color_f(weight_a, weight_b, weight_c) of a shader: either a closure that
\* returns one fixed value, or the closure of ColorTriangle::paint_to_buffer
color_f(shader, w) ==
    IF shader.kind = "const" THEN shader.color
    ELSE lit_color_f(shader.lit, shader.light_color, w)

ConstShader(c) == [kind |-> "const", color |-> c, lit |-> <<>>, light_color |-> <<>>]
LitShader(lit, light_color) ==
    [kind |-> "lit", color |-> 0, lit |-> lit, light_color |-> light_color]

(***************************************************************************)
(* Triangle3D::paint_to_buffer                                             *)
(***************************************************************************)
\* projected_triangle of paint_to_buffer: camera translation, y flip,
\* perspective divide, shift by (0.5, 0.5)
projected_triangle(tri, scene) ==
    LET t == Triangle3D_translated_by(tri, get_translating_point(scene.camera.position))
        f == [a |-> Point3D_new(t.a.x, RNeg(t.a.y), t.a.z),
              b |-> Point3D_new(t.b.x, RNeg(t.b.y), t.b.z),
              c |-> Point3D_new(t.c.x, RNeg(t.c.y), t.c.z)]
    IN  Triangle2D_translated_by(Triangle3D_project_to_2d(f), Point2D_new(RHalf, RHalf))

\* Point2D::new(x / width, y / height) of the loop body
pixel_point(x, y, width, height) == Point2D_new(Rat(x, width), Rat(y, height))

\* z_val of the loop body
z_val(tri, w) ==
    RAdd(RAdd(RMul(tri.a.z, w[1]), RMul(tri.b.z, w[2])), RMul(tri.c.z, w[3]))

\* a mutant of paint_pixel: the depth test is <= instead of <
paint_pixel_mut(tri, pt, buffer, shader, x, y) ==
    LET index == x + y * buffer.width
        p == pixel_point(x, y, buffer.width, buffer.height)
    IN  IF index >= Len(buffer.pixel_buffer) THEN buffer
        ELSE IF ~contains_point(pt, p) THEN buffer
        ELSE LET w == get_weights_at(pt, p)
                 z == z_val(tri, w)
             IN  IF RLe(z, buffer.z_buffer[index + 1])
                 THEN [buffer EXCEPT !.z_buffer[index + 1] = z,
                                     !.pixel_buffer[index + 1] = color_f(shader, w)]
                 ELSE buffer

\* one iteration of the loop body, for column x and row y
paint_pixel(tri, pt, buffer, shader, x, y) ==
    LET index == x + y * buffer.width
        p == pixel_point(x, y, buffer.width, buffer.height)
    IN  IF index >= Len(buffer.pixel_buffer) THEN buffer
        ELSE IF ~contains_point(pt, p) THEN buffer
        ELSE LET w == get_weights_at(pt, p)
                 z == z_val(tri, w)
             IN  IF RLt(z, buffer.z_buffer[index + 1])
                 THEN [buffer EXCEPT !.z_buffer[index + 1] = z,
                                     !.pixel_buffer[index + 1] = color_f(shader, w)]
                 ELSE buffer

\* the iterations k, k+1, ... of `for y in range_y { for x in range_x }`,
\* numbered row by row
RECURSIVE paint_loop(_, _, _, _, _, _)
paint_loop(tri, pt, buffer, shader, box, k) ==
    LET nx == box.x.end - box.x.start
        ny == box.y.end - box.y.start
    IN  IF nx <= 0 \/ ny <= 0 \/ k >= nx * ny THEN buffer
        ELSE IF Len(buffer.pixel_buffer) = 0 THEN buffer  \* every index is skipped
        ELSE paint_loop(tri, pt,
                        paint_pixel(tri, pt, buffer, shader,
                                    box.x.start + (k % nx), box.y.start + (k \div nx)),
                        shader, box, k + 1)

\* a mutant of Triangle3D::paint_to_buffer: only triangles of area zero are
\* culled
Triangle3D_paint_to_buffer_mut(tri, buffer, scene, shader) ==
    LET pt == projected_triangle(tri, scene)
    IN  IF signed_area(pt) = R0 THEN buffer
        ELSE paint_loop(tri, pt, buffer, shader,
                        get_bounding_box_px(pt, buffer.width, buffer.height), 0)

Triangle3D_paint_to_buffer(tri, buffer, scene, shader) ==
    LET pt == projected_triangle(tri, scene)
    IN  IF RLe(signed_area(pt), R0) THEN buffer
        ELSE paint_loop(tri, pt, buffer, shader,
                        get_bounding_box_px(pt, buffer.width, buffer.height), 0)

(***************************************************************************)
(* ColorTriangle, Object3D                                                 *)
(***************************************************************************)
\* A ColorTriangle of the model is [color, tri, lit].  lit stands for the six
\* scalars diff_brightness_{a,b,c}, spec_brightness_{a,b,c} that lines 262-291
\* compute from tri, normal_tri and the scene; they pass through square roots
\* (normalized) and are drawn from a set instead of computed.
ColorTriangle_new(color, tri, lit) == [color |-> color, tri |-> tri, lit |-> lit]

ColorTriangle_paint_to_buffer(ct, buffer, scene) ==
    Triangle3D_paint_to_buffer(ct.tri, buffer, scene, LitShader(ct.lit, scene.light.color))

ColorTriangle_translated_by(ct, offset) ==
    [ct EXCEPT !.tri = Triangle3D_translated_by(ct.tri, offset)]

\* the copy of a mesh triangle that Object3D::paint_to_buffer paints
transformed(obj, ct) ==
    ColorTriangle_translated_by(
        [ct EXCEPT !.tri = Triangle3D_rotated_xz(ct.tri, obj.rotation)],
        get_translating_point(obj.position))

RECURSIVE Object3D_paint_from(_, _, _, _)
Object3D_paint_from(obj, buffer, scene, k) ==
    IF k > Len(obj.triangles) THEN buffer
    ELSE Object3D_paint_from(obj,
             ColorTriangle_paint_to_buffer(transformed(obj, obj.triangles[k]), buffer, scene),
             scene, k + 1)

Object3D_paint_to_buffer(obj, buffer, scene) == Object3D_paint_from(obj, buffer, scene, 1)

(***************************************************************************)
(* Inputs of the model                                                     *)
(***************************************************************************)
\* the point (x2/2, y2/2, z)
V(x2, y2, z) == Point3D_new(Rat(x2, 2), Rat(y2, 2), Int2R(z))

Origin == V(0, 0, 0)

\* Seen from a camera at the origin the triangles below project to:
\* Far, Near: (0,0) (1,0) (0,1), at depth 2 and 1;  Tie: (0,0) (1,0) (1,1) at
\* depth 2;  Back: Far with b and c exchanged;  Degen: three points on a line;
\* Slope: (0,0) (2,0) (0,1), past the right edge, depths 3, 1, 3;
\* Right: (1/2,0) (3/2,0) (1/2,1), past the right edge;
\* Corner: (-1/2,1/2) (1/2,1/2) (-1/2,3/2), past the left and the bottom edge.
Far == Triangle3D_new(V(-2, 2, 2), V(2, 2, 2), V(-2, -2, 2))
Near == Triangle3D_new(V(-1, 1, 1), V(1, 1, 1), V(-1, -1, 1))
Tie == Triangle3D_new(V(-2, 2, 2), V(2, 2, 2), V(2, -2, 2))
Back == Triangle3D_new(V(-2, 2, 2), V(-2, -2, 2), V(2, 2, 2))
Degen == Triangle3D_new(V(-2, 2, 2), V(0, 0, 2), V(2, -2, 2))
Slope == Triangle3D_new(V(-3, 3, 3), V(3, 1, 1), V(-3, -3, 3))
Right == Triangle3D_new(V(0, 1, 1), V(2, 1, 1), V(0, -1, 1))
Corner == Triangle3D_new(V(-4, 0, 2), V(0, 0, 2), V(-4, -4, 2))
\* Far as a mesh triangle that a half turn, and one that a quarter turn, brings
\* in front of the camera
FarHalfTurn == Triangle3D_new(V(2, 2, -2), V(-2, 2, -2), V(2, -2, -2))
FarQuarterTurn == Triangle3D_new(V(4, 2, 1), V(4, 2, -1), V(4, -2, 1))

\* diff_brightness and spec_brightness triples: one inside [0, 1], one whose
\* sum is negative, one whose sum exceeds 1
LitMid == [diff |-> <<Rat(1, 2), Rat(1, 4), R0>>, spec |-> <<R0, Rat(1, 4), R1>>]
LitDark == [diff |-> <<Int2R(-1), Int2R(-1), Int2R(-1)>>, spec |-> <<R0, R0, R0>>]
LitBright == [diff |-> <<R1, R1, R1>>, spec |-> <<R1, Int2R(2), Rat(1, 2)>>]

ColorTriangles ==
    {ColorTriangle_new(16777215, Far, LitMid), ColorTriangle_new(16777215, Tie, LitDark),
     ColorTriangle_new(16777215, Back, LitMid), ColorTriangle_new(16777215, Slope, LitMid),
     ColorTriangle_new(16777215, Right, LitBright), ColorTriangle_new(16777215, Corner, LitMid)}

\* direct calls of Triangle3D::paint_to_buffer with a closure returning one value
DirectCalls ==
    {[tri |-> Near, shader |-> ConstShader(16777216)]}

Object3D_new(triangles) == [position |-> Origin, rotation |-> 0, triangles |-> triangles]

Objects ==
    {Object3D_new(<<ColorTriangle_new(16777215, Far, LitMid),
                    ColorTriangle_new(16777215, Degen, LitMid),
                    ColorTriangle_new(16777215, Near, LitBright)>>),
     [position |-> V(0, 0, -1), rotation |-> 2,
      triangles |-> <<ColorTriangle_new(16777215, FarHalfTurn, LitMid),
                      ColorTriangle_new(16777215, Back, LitDark)>>],
     [position |-> Origin, rotation |-> 1,
      triangles |-> <<ColorTriangle_new(16777215, FarQuarterTurn, LitBright)>>]}

\* the scene of main, with the camera moved next to the mesh, and a second one
Scenes ==
    {Scene_new(Camera_new(Origin, V(0, 0, -1)),
               Light_new(Point3D_new(Int2R(2), Rat(3, 4), Rat(-1, 2)), <<R1, Rat(3, 10), R0>>)),
     Scene_new(Camera_new(V(0, 0, -1), V(0, 0, -1)),
               Light_new(V(0, 0, 1), <<R1, R1, Rat(1, 2)>>))}

Dims == {<<2, 2>>, <<4, 3>>}

\* the most paint_to_buffer calls of one frame
MaxPaints == 2

\* the background color of main
Background == 1118481

(***************************************************************************)
(* main: the frame and the event handler                                   *)
(***************************************************************************)
\* the background loop of main
fill_background(b) ==
    [b EXCEPT !.pixel_buffer = [i \in DOMAIN b.pixel_buffer |-> Background]]

\* camera and light of main
MainScene ==
    Scene_new(Camera_new(V(0, 0, -5), V(0, 0, -1)),
              Light_new(Point3D_new(Int2R(2), Rat(3, 4), Rat(-1, 2)), <<R1, Rat(3, 10), R0>>))

\* the frame of a redraw: PaintBuffer::new, background, object.paint_to_buffer
render_frame(obj, width, height) ==
    Object3D_paint_to_buffer(obj, fill_background(PaintBuffer_new(width, height)), MainScene)

NoSurface == [some |-> FALSE, buf |-> <<>>]
\* a surface resized to width x height; buf is what surface.buffer_mut() yields
SurfaceOf(width, height) == [some |-> TRUE, buf |-> [i \in 1..(width * height) |-> 0]]

\* a mutant of redraw_requested: neither length check is made
redraw_requested_mut(sf, size, obj, time) ==
    IF ~sf.some THEN [surface |-> sf, object |-> obj, outcome |-> "no surface"]
    ELSE IF size[1] = 0 \/ size[2] = 0
    THEN [surface |-> sf, object |-> obj, outcome |-> "zero size"]
    ELSE LET o == [obj EXCEPT !.rotation = time]
             frame == render_frame(o, size[1], size[2])
         IN  [surface |-> [sf EXCEPT !.buf = frame.pixel_buffer], object |-> o,
              outcome |-> "presented"]

\* the RedrawRequested arm of the event handler: the surface and the object
\* it leaves, and where it ended; buffer.present() is called on the path
\* that ends "presented", and on no other
redraw_requested(sf, size, obj, time) ==
    IF ~sf.some THEN [surface |-> sf, object |-> obj, outcome |-> "no surface"]
    ELSE IF size[1] = 0 \/ size[2] = 0
    THEN [surface |-> sf, object |-> obj, outcome |-> "zero size"]
    ELSE IF Len(sf.buf) # size[1] * size[2]
    THEN [surface |-> sf, object |-> obj, outcome |-> "size mismatch"]
    ELSE LET o == [obj EXCEPT !.rotation = time]
             frame == render_frame(o, size[1], size[2])
         IN  IF Len(sf.buf) = Len(frame.pixel_buffer)
             THEN [surface |-> [sf EXCEPT !.buf = frame.pixel_buffer], object |-> o,
                   outcome |-> "presented"]
             ELSE [surface |-> sf, object |-> o, outcome |-> "not copied"]

\* the Resized arm of the event handler
resized(sf, size) ==
    IF ~sf.some THEN sf
    ELSE IF size[1] # 0 /\ size[2] # 0 THEN SurfaceOf(size[1], size[2])
    ELSE sf

\* sizes the window takes (0 x 0: minimised), times of a redraw in quarter
\* turns of object.rotation, and meshes main may have loaded
WindowSizes == {<<0, 0>>, <<1, 1>>, <<2, 1>>, <<2, 2>>}
Times == {0, 1, 2}
MainMeshes ==
    {<<ColorTriangle_new(16777215,
                         Triangle3D_new(V(-4, 4, -1), V(4, 4, -1), V(-4, -4, -1)), LitMid)>>,
     <<ColorTriangle_new(16777215,
                         Triangle3D_new(V(-4, 4, -1), V(4, 4, -1), V(4, -4, -1)), LitBright),
       ColorTriangle_new(16777215,
                         Triangle3D_new(V(-4, 4, -2), V(4, 4, -2), V(-4, -4, -2)), LitDark)>>}

(***************************************************************************)
(* State                                                                   *)
(***************************************************************************)
VARIABLES
    buffer,            \* the PaintBuffer of the frame
    scene,             \* the Scene of the frame
    background,        \* the color the frame's pixels were initialised to
    calls,             \* the paint_to_buffer calls made on buffer, oldest first
    window_size,       \* window.inner_size()
    pending_resize,    \* the size of a Resized event not yet handled, or <<>>
    surface,           \* Option<Surface> of the event handler
    displayed,         \* the pixels of the last buffer.present(), or <<>>
    outcome,           \* where the last handler call ended
    redraw_requested_, \* window.request_redraw() is pending
    event,             \* the event of the last handler call
    exited,            \* elwt.exit() was called
    object             \* the Object3D of main

rvars == <<buffer, scene, background, calls>>
mvars == <<window_size, pending_resize, surface, displayed, outcome,
           redraw_requested_, event, exited, object>>
vars == <<buffer, scene, background, calls, window_size, pending_resize, surface,
          displayed, outcome, redraw_requested_, event, exited, object>>

\* perspective division is defined for the call: no vertex at camera depth 0
ValidTriangle(tri, sc) ==
    \A v \in {tri.a, tri.b, tri.c} : RSub(v.z, sc.camera.position.z).n # 0

ValidObject(obj, sc) ==
    \A k \in 1..Len(obj.triangles) : ValidTriangle(transformed(obj, obj.triangles[k]).tri, sc)

RInit ==
    /\ \E dim \in Dims : buffer = PaintBuffer_new(dim[1], dim[2])
    /\ scene \in Scenes
    /\ background = 0
    /\ calls = <<>>

MInit ==
    /\ window_size = <<2, 2>>
    /\ pending_resize = <<>>
    /\ surface = NoSurface
    /\ displayed = <<>>
    /\ outcome = "none"
    /\ redraw_requested_ = FALSE
    /\ event = "none"
    /\ exited = FALSE
    /\ \E mesh \in MainMeshes : object = Object3D_new(mesh)

(***************************************************************************)
(* The rasterizer: paint_to_buffer calls on one PaintBuffer                *)
(***************************************************************************)
\* a new frame: PaintBuffer::new and Scene::new
NewFrame(dim, sc) ==
    /\ buffer' = PaintBuffer_new(dim[1], dim[2])
    /\ scene' = sc
    /\ background' = 0
    /\ calls' = <<>>
    /\ UNCHANGED mvars

FillBackground ==
    /\ calls = <<>>
    /\ background = 0
    /\ buffer' = fill_background(buffer)
    /\ background' = Background
    /\ UNCHANGED <<scene, calls>>
    /\ UNCHANGED mvars

PaintTriangle3D(c) ==
    /\ Len(calls) < MaxPaints
    /\ ValidTriangle(c.tri, scene)
    /\ buffer' = Triangle3D_paint_to_buffer(c.tri, buffer, scene, c.shader)
    /\ calls' = Append(calls, [op |-> "Triangle3D", arg |-> c])
    /\ UNCHANGED <<scene, background>>
    /\ UNCHANGED mvars

PaintColorTriangle(ct) ==
    /\ Len(calls) < MaxPaints
    /\ ValidTriangle(ct.tri, scene)
    /\ buffer' = ColorTriangle_paint_to_buffer(ct, buffer, scene)
    /\ calls' = Append(calls, [op |-> "ColorTriangle", arg |-> ct])
    /\ UNCHANGED <<scene, background>>
    /\ UNCHANGED mvars

PaintObject3D(obj) ==
    /\ Len(calls) < MaxPaints
    /\ ValidObject(obj, scene)
    /\ buffer' = Object3D_paint_to_buffer(obj, buffer, scene)
    /\ calls' = Append(calls, [op |-> "Object3D", arg |-> obj])
    /\ UNCHANGED <<scene, background>>
    /\ UNCHANGED mvars

Init ==
    /\ RInit
    /\ window_size = <<2, 2>>
    /\ pending_resize = <<>>
    /\ surface = NoSurface
    /\ displayed = <<>>
    /\ outcome = "none"
    /\ redraw_requested_ = FALSE
    /\ event = "none"
    /\ exited = FALSE
    /\ object = Object3D_new(<<>>)

Next ==
    \/ \E dim \in Dims, sc \in Scenes : NewFrame(dim, sc)
    \/ FillBackground
    \/ \E c \in DirectCalls : PaintTriangle3D(c)
    \/ \E ct \in ColorTriangles : PaintColorTriangle(ct)
    \/ \E obj \in Objects : PaintObject3D(obj)

Spec == Init /\ [][Next]_vars

(***************************************************************************)
(* The event loop of main                                                  *)
(***************************************************************************)
\* the event loop resumes: the init closures make the window and the surface;
\* the size the platform gives the new surface is not the program's choice
Resumed(size) ==
    /\ ~exited
    /\ ~surface.some
    /\ size[1] # 0 /\ size[2] # 0
    /\ surface' = SurfaceOf(size[1], size[2])
    /\ event' = "Resumed"
    /\ outcome' = "returned"
    /\ UNCHANGED <<window_size, pending_resize, displayed, redraw_requested_, exited, object>>
    /\ UNCHANGED rvars

\* the user resizes the window; winit queues a Resized event
WindowResize(size) ==
    /\ ~exited
    /\ size # window_size
    /\ window_size' = size
    /\ pending_resize' = size
    /\ UNCHANGED <<surface, displayed, outcome, redraw_requested_, event, exited, object>>
    /\ UNCHANGED rvars

Resized ==
    /\ ~exited
    /\ pending_resize # <<>>
    /\ surface' = resized(surface, pending_resize)
    /\ pending_resize' = <<>>
    /\ event' = "Resized"
    /\ outcome' = "returned"
    /\ UNCHANGED <<window_size, displayed, redraw_requested_, exited, object>>
    /\ UNCHANGED rvars

RedrawRequested(time) ==
    /\ ~exited
    /\ redraw_requested_
    /\ LET r == redraw_requested(surface, window_size, object, time)
       IN  /\ surface' = r.surface
           /\ object' = r.object
           /\ outcome' = r.outcome
           /\ displayed' = IF r.outcome = "presented" THEN r.surface.buf ELSE displayed
    /\ redraw_requested_' = FALSE
    /\ event' = "RedrawRequested"
    /\ UNCHANGED <<window_size, pending_resize, exited>>
    /\ UNCHANGED rvars

AboutToWait ==
    /\ ~exited
    /\ redraw_requested_' = TRUE
    /\ event' = "AboutToWait"
    /\ outcome' = "returned"
    /\ UNCHANGED <<window_size, pending_resize, surface, displayed, exited, object>>
    /\ UNCHANGED rvars

CloseRequested ==
    /\ ~exited
    /\ exited' = TRUE
    /\ event' = "CloseRequested"
    /\ outcome' = "returned"
    /\ UNCHANGED <<window_size, pending_resize, surface, displayed, redraw_requested_, object>>
    /\ UNCHANGED rvars

MainInit ==
    /\ MInit
    /\ buffer = PaintBuffer_new(1, 1)
    /\ scene = MainScene
    /\ background = 0
    /\ calls = <<>>

MainNext ==
    \/ \E size \in WindowSizes : Resumed(size)
    \/ \E size \in WindowSizes : WindowResize(size)
    \/ Resized
    \/ \E time \in Times : RedrawRequested(time)
    \/ AboutToWait
    \/ CloseRequested

MainSpec == MainInit /\ [][MainNext]_vars

(***************************************************************************)
(* Vocabulary of the properties                                            *)
(***************************************************************************)
\* the Triangle3D::paint_to_buffer calls (triangle and closure) that a call
\* of the frame makes, in order
TriCallsOf(call, sc) ==
    IF call.op = "Triangle3D" THEN <<[tri |-> call.arg.tri, shader |-> call.arg.shader]>>
    ELSE IF call.op = "ColorTriangle"
    THEN <<[tri |-> call.arg.tri, shader |-> LitShader(call.arg.lit, sc.light.color)]>>
    ELSE [k \in 1..Len(call.arg.triangles) |->
             LET t == transformed(call.arg, call.arg.triangles[k])
             IN  [tri |-> t.tri, shader |-> LitShader(t.lit, sc.light.color)]]

\* every Triangle3D::paint_to_buffer call of the frame so far
AllTriCalls ==
    UNION {{TriCallsOf(calls[k], scene)[j] : j \in 1..Len(TriCallsOf(calls[k], scene))} :
           k \in 1..Len(calls)}

\* the Triangle3D::paint_to_buffer calls of the frame's last call
LastTriCalls ==
    IF calls = <<>> THEN {}
    ELSE {TriCallsOf(calls[Len(calls)], scene)[j] :
              j \in 1..Len(TriCallsOf(calls[Len(calls)], scene))}

Indices(b) == 0..(Len(b.pixel_buffer) - 1)

\* the normalized point of the pixel stored at index i
PointOf(i, b) == pixel_point(i % b.width, i \div b.width, b.width, b.height)

FrontFacing(tri, sc) == RLt(R0, signed_area(projected_triangle(tri, sc)))

\* the pixel at index i lies in the closed projected triangle
Covers(tri, sc, i, b) ==
    /\ FrontFacing(tri, sc)
    /\ contains_point(projected_triangle(tri, sc), PointOf(i, b))

WeightsAt(tri, sc, i, b) == get_weights_at(projected_triangle(tri, sc), PointOf(i, b))

PaintStep == Len(calls') = Len(calls) + 1

\* the step is a paint_to_buffer call that paints exactly one triangle
SinglePaintStep == PaintStep /\ Len(TriCallsOf(calls'[Len(calls')], scene)) = 1

LastTri == TriCallsOf(calls[Len(calls)], scene)[1]
LastTri_ == TriCallsOf(calls'[Len(calls')], scene)[1]

(***************************************************************************)
(* C1.  Two front-facing triangles painted with                            *)
(* Triangle3D::paint_to_buffer into a freshly initialised PaintBuffer: at  *)
(* every pixel that both cover with different interpolated depths, the     *)
(* buffer holds the color and the depth of the triangle with the smaller   *)
(* depth there, and painting in the other order gives the same color and   *)
(* depth.                                                                  *)
(***************************************************************************)
DepthAt(tri, sc, i, b) == z_val(tri, WeightsAt(tri, sc, i, b))

ColorAt(tc, sc, i, b) == color_f(tc.shader, WeightsAt(tc.tri, sc, i, b))

\* the frame so far is two calls that paint one front-facing triangle each
\* into the buffer PaintBuffer::new made
TwoFrontFacing ==
    /\ Len(calls) = 2
    /\ background = 0
    /\ \A k \in 1..2 : /\ Len(TriCallsOf(calls[k], scene)) = 1
                       /\ FrontFacing(TriCallsOf(calls[k], scene)[1].tri, scene)

C1_NearerTriangleWins ==
    TwoFrontFacing =>
        LET t1 == TriCallsOf(calls[1], scene)[1]
            t2 == TriCallsOf(calls[2], scene)[1]
            fresh == PaintBuffer_new(buffer.width, buffer.height)
            other == Triangle3D_paint_to_buffer(t1.tri,
                         Triangle3D_paint_to_buffer(t2.tri, fresh, scene, t2.shader),
                         scene, t1.shader)
        IN  \A i \in Indices(buffer) :
                (/\ Covers(t1.tri, scene, i, buffer)
                 /\ Covers(t2.tri, scene, i, buffer)
                 /\ DepthAt(t1.tri, scene, i, buffer) # DepthAt(t2.tri, scene, i, buffer))
                => LET near == IF RLt(DepthAt(t1.tri, scene, i, buffer),
                                      DepthAt(t2.tri, scene, i, buffer))
                               THEN t1 ELSE t2
                   IN  /\ buffer.pixel_buffer[i + 1] = ColorAt(near, scene, i, buffer)
                       /\ buffer.z_buffer[i + 1] = DepthAt(near.tri, scene, i, buffer)
                       /\ other.pixel_buffer[i + 1] = buffer.pixel_buffer[i + 1]
                       /\ other.z_buffer[i + 1] = buffer.z_buffer[i + 1]

\* the projected triangle lies inside the unit square, so that no column or
\* row of its pixel box lies outside the buffer
OnScreen(tri, sc) ==
    LET r == get_bounding_box(projected_triangle(tri, sc))
    IN  RLe(R0, r.x.start) /\ RLe(r.x.end, R1) /\ RLe(R0, r.y.start) /\ RLe(r.y.end, R1)

\* C1 for triangles that lie on the screen
C1_OnScreen ==
    (TwoFrontFacing /\ \A k \in 1..2 : OnScreen(TriCallsOf(calls[k], scene)[1].tri, scene))
        => C1_NearerTriangleWins

(***************************************************************************)
(* C3.  A Triangle3D::paint_to_buffer call changes the color or the depth  *)
(* at index i only if the pixel of column i mod width and row i div width  *)
(* lies inside the closed projected triangle.                              *)
(***************************************************************************)
Changed(i) ==
    \/ buffer'.pixel_buffer[i + 1] # buffer.pixel_buffer[i + 1]
    \/ buffer'.z_buffer[i + 1] # buffer.z_buffer[i + 1]

C3_OnlyInsideSilhouette ==
    [][SinglePaintStep =>
          \A i \in Indices(buffer) : Changed(i) => Covers(LastTri_.tri, scene, i, buffer)]_vars

(***************************************************************************)
(* C8.  get_bounding_box yields ranges inside [0, 1] and                   *)
(* get_bounding_box_px a column range inside 0..width and a row range      *)
(* inside 0..height, for every projected triangle.                         *)
(***************************************************************************)
C8_BoundingBoxClamped ==
    \A tc \in LastTriCalls :
        LET pt == projected_triangle(tc.tri, scene)
            r == get_bounding_box(pt)
            px == get_bounding_box_px(pt, buffer.width, buffer.height)
        IN  /\ RLe(R0, r.x.start) /\ RLe(r.x.end, R1)
            /\ RLe(R0, r.y.start) /\ RLe(r.y.end, R1)
            /\ 0 <= px.x.start /\ px.x.end <= buffer.width
            /\ 0 <= px.y.start /\ px.y.end <= buffer.height

(***************************************************************************)
(* C10.  The depth a Triangle3D::paint_to_buffer call stores for a pixel   *)
(* is the barycentric interpolation of the vertices' camera-space z (z     *)
(* after the camera position has been subtracted).                         *)
(***************************************************************************)
camera_space(tri, sc) == Triangle3D_translated_by(tri, get_translating_point(sc.camera.position))

C10_DepthIsCameraSpace ==
    [][SinglePaintStep =>
          \A i \in Indices(buffer) :
              buffer'.z_buffer[i + 1] # buffer.z_buffer[i + 1]
              => LET pt == projected_triangle(LastTri_.tri, scene)
                     px == get_bounding_box_px(pt, buffer.width, buffer.height)
                 IN  \E x \in px.x.start..(px.x.end - 1), y \in px.y.start..(px.y.end - 1) :
                         /\ x + y * buffer.width = i
                         /\ buffer'.z_buffer[i + 1] =
                                z_val(camera_space(LastTri_.tri, scene),
                                      get_weights_at(pt, pixel_point(x, y, buffer.width,
                                                                     buffer.height)))]_vars

(***************************************************************************)
(* C2.  A Triangle3D::paint_to_buffer call on a triangle whose projected   *)
(* signed_area is <= 0 leaves every entry of the color buffer and of the   *)
(* depth buffer unchanged.                                                 *)
(***************************************************************************)
Culled(tri, sc) == RLe(signed_area(projected_triangle(tri, sc)), R0)

C2_BackFacingUntouched ==
    [][(PaintStep /\ \A j \in 1..Len(TriCallsOf(calls'[Len(calls')], scene)) :
                         Culled(TriCallsOf(calls'[Len(calls')], scene)[j].tri, scene))
       => buffer' = buffer]_vars

\* a triangle of negative signed_area was painted onto a buffer that an
\* earlier call has painted
C2_Witness ==
    /\ Len(calls) = 2
    /\ Len(TriCallsOf(calls[2], scene)) = 1
    /\ RLt(signed_area(projected_triangle(LastTri.tri, scene)), R0)
    /\ \E i \in Indices(buffer) : buffer.z_buffer[i + 1] # F64_MAX

(***************************************************************************)
(* C4.  For a triangle with edge_function(a, b, c) # 0 and any point p,    *)
(* the weights of get_weights_at(p) sum to 1, the three edge functions at  *)
(* p sum to edge_function(a, b, c), and the weights at a, b, c are         *)
(* (1,0,0), (0,1,0), (0,0,1).                                              *)
(***************************************************************************)
\* the points the property is evaluated at: the pixels of the buffer and
\* points outside the unit square
SamplePoints(b) ==
    {PointOf(i, b) : i \in Indices(b)} \cup
    {Point2D_new(Int2R(-1), Int2R(2)), Point2D_new(Rat(3, 2), Rat(-1, 3)),
     Point2D_new(Rat(1, 3), Rat(1, 3))}

C4_WeightsSumToOne ==
    \A tc \in LastTriCalls :
        LET t == projected_triangle(tc.tri, scene)
            abc == edge_function(t.a, t.b, t.c)
        IN  abc # R0 =>
                /\ \A p \in SamplePoints(buffer) :
                       LET w == get_weights_at(t, p)
                       IN  /\ RAdd(RAdd(w[1], w[2]), w[3]) = R1
                           /\ RAdd(RAdd(edge_function(t.b, t.c, p), edge_function(t.c, t.a, p)),
                                   edge_function(t.a, t.b, p)) = abc
                /\ get_weights_at(t, t.a) = <<R1, R0, R0>>
                /\ get_weights_at(t, t.b) = <<R0, R1, R0>>
                /\ get_weights_at(t, t.c) = <<R0, R0, R1>>

\* a non-degenerate triangle was painted, and one of the points lies outside
\* it (a negative weight)
C4_Witness ==
    \E tc \in LastTriCalls :
        LET t == projected_triangle(tc.tri, scene)
        IN  /\ edge_function(t.a, t.b, t.c) # R0
            /\ \E p \in SamplePoints(buffer) : RLt(get_weights_at(t, p)[1], R0)

(***************************************************************************)
(* C5.  The color buffer and the depth buffer of a PaintBuffer both have   *)
(* length width * height, after PaintBuffer::new and after every sequence  *)
(* of paint_to_buffer calls.                                               *)
(***************************************************************************)
C5_BufferLengths ==
    /\ Len(buffer.pixel_buffer) = buffer.width * buffer.height
    /\ Len(buffer.z_buffer) = buffer.width * buffer.height

\* the frame's calls were made, one of them on a front-facing triangle whose
\* pixel box has rows below the buffer, and pixels were painted
C5_Witness ==
    /\ Len(calls) = MaxPaints
    /\ \E tc \in AllTriCalls :
           /\ FrontFacing(tc.tri, scene)
           /\ get_bounding_box_px(projected_triangle(tc.tri, scene),
                                  buffer.width, buffer.height).y.end > buffer.height
    /\ \E i \in Indices(buffer) : buffer.z_buffer[i + 1] # F64_MAX

(***************************************************************************)
(* C6.  Every value a frame leaves in the color buffer is a 24-bit value   *)
(* (at most 0xFFFFFF); the closure of ColorTriangle::paint_to_buffer       *)
(* yields r, g, b in 0..255 for any weights, so that packing lets no       *)
(* channel spill into another.                                             *)
(***************************************************************************)
\* weights inside, at the corners of, and outside a triangle
WeightSamples ==
    {<<R1, R0, R0>>, <<R0, R1, R0>>, <<R0, R0, R1>>, <<Rat(1, 3), Rat(1, 3), Rat(1, 3)>>,
     <<Int2R(2), Int2R(-1), R0>>, <<Int2R(-1), R1, R1>>, <<Int2R(-3), Int2R(2), Int2R(2)>>}

\* the frame is one of ColorTriangle and Object3D calls, as main's frames are
LitFrame == \A k \in 1..Len(calls) : calls[k].op # "Triangle3D"

LitCalls == {tc \in LastTriCalls : tc.shader.kind = "lit"}

\* the weights of a triangle at the pixels of the buffer
WeightsOnBuffer(tri) ==
    LET t == projected_triangle(tri, scene)
    IN  IF edge_function(t.a, t.b, t.c) = R0 THEN {}
        ELSE {get_weights_at(t, PointOf(i, buffer)) : i \in Indices(buffer)}

C6_PackedRgb ==
    /\ LitFrame => \A i \in Indices(buffer) : buffer.pixel_buffer[i + 1] \in 0..16777215
    /\ \A tc \in LitCalls :
           \A w \in WeightSamples \cup WeightsOnBuffer(tc.tri) :
               LET r == channel(tc.shader.lit, tc.shader.light_color, w, 1)
                   g == channel(tc.shader.lit, tc.shader.light_color, w, 2)
                   b == channel(tc.shader.lit, tc.shader.light_color, w, 3)
               IN  /\ r \in 0..255 /\ g \in 0..255 /\ b \in 0..255
                   /\ pack(r, g, b) = r * 65536 + g * 256 + b
                   /\ pack(r, g, b) \in 0..16777215

\* a frame with main's background holds a pixel whose color the closure
\* produced from a brightness that the clamp cut down to 1
C6_Witness ==
    /\ LitFrame
    /\ background = Background
    /\ \E tc \in LitCalls, i \in Indices(buffer) :
           /\ Covers(tc.tri, scene, i, buffer)
           /\ RLt(R1, raw_brightness(tc.shader.lit, WeightsAt(tc.tri, scene, i, buffer)))
           /\ buffer.pixel_buffer[i + 1] = ColorAt(tc, scene, i, buffer)
           /\ buffer.pixel_buffer[i + 1] # Background

(***************************************************************************)
(* C9.  In a paint_to_buffer call no stored depth increases, and a pixel's *)
(* color changes only where the call strictly lowers the stored depth; so  *)
(* a later triangle of exactly the stored depth changes nothing.           *)
(***************************************************************************)
C9_StrictDepthTest ==
    [][PaintStep =>
          \A i \in Indices(buffer) :
              /\ ~RLt(buffer.z_buffer[i + 1], buffer'.z_buffer[i + 1])
              /\ buffer'.pixel_buffer[i + 1] # buffer.pixel_buffer[i + 1]
                 => RLt(buffer'.z_buffer[i + 1], buffer.z_buffer[i + 1])]_vars

\* the second call's triangle covers a pixel at exactly the depth the first
\* call stored there, and the pixel still holds the first call's color, which
\* is not the color the second call's closure yields
C9_Witness ==
    /\ Len(calls) = 2
    /\ Len(TriCallsOf(calls[1], scene)) = 1
    /\ Len(TriCallsOf(calls[2], scene)) = 1
    /\ \E i \in Indices(buffer) :
           LET first == TriCallsOf(calls[1], scene)[1]
           IN  /\ Covers(first.tri, scene, i, buffer)
               /\ Covers(LastTri.tri, scene, i, buffer)
               /\ DepthAt(LastTri.tri, scene, i, buffer) = buffer.z_buffer[i + 1]
               /\ DepthAt(first.tri, scene, i, buffer) = buffer.z_buffer[i + 1]
               /\ buffer.pixel_buffer[i + 1] = ColorAt(first, scene, i, buffer)
               /\ buffer.pixel_buffer[i + 1] # ColorAt(LastTri, scene, i, buffer)

(***************************************************************************)
(* C7.  A redraw request for which the surface's buffer length differs     *)
(* from width * height of the window copies nothing into the surface and   *)
(* does not call present; every AboutToWait event requests a redraw again. *)
(***************************************************************************)
\* the state is one in which a RedrawRequested event meets a surface whose
\* buffer length differs from the window's width * height
SizeMismatch ==
    /\ surface.some
    /\ window_size[1] # 0 /\ window_size[2] # 0
    /\ Len(surface.buf) # window_size[1] * window_size[2]

\* a step of the RedrawRequested arm: the only one that takes the pending
\* redraw request away
RedrawStep == redraw_requested_ /\ ~redraw_requested_' /\ event' = "RedrawRequested"

C7_MismatchDropsFrame ==
    [][/\ (RedrawStep /\ SizeMismatch)
          => (surface' = surface /\ displayed' = displayed /\ outcome' # "presented")
       /\ event' = "AboutToWait" => redraw_requested_']_vars

\* after a frame had been presented, a redraw met a size mismatch and ended
\* there
C7_Witness ==
    /\ SizeMismatch
    /\ displayed # <<>>
    /\ event = "RedrawRequested"
    /\ outcome = "size mismatch"

====
